---- MODULE Spec2Model ----
(***************************************************************************)
(* A model of the VIPO Pareto frontier viewer (src/pareto-viewer/main.cpp).*)
(*                                                                         *)
(* Three specifications share one state:                                   *)
(*   SpecMain    main() from its argument check to the end of the process, *)
(*               over every input file of at most MaxLines lines and every *)
(*               failure of the graphics initialisation;                   *)
(*   SpecApi     the public functions application::init, run and free      *)
(*               called in any order on a parsed frontier;                 *)
(*   SpecCamera  the application loop on an initialised application, over  *)
(*               cursor positions, mouse buttons and scroll events.        *)
(*                                                                         *)
(* Number representations:                                                 *)
(*   - vertex coordinates are integers (the floats of the input files used)*)
(*   - angles (altitude, azimuth) are integers in units of 1e-7 rad        *)
(*   - radius is the IEEE-754 binary32 bit pattern of the float, and the   *)
(*     scroll callback's multiplication is the binary32 multiplication     *)
(*     (round to nearest, ties to even)                                    *)
(*   - an entry of the model matrix is a reduced fraction [n, d] or one of *)
(*     "inf", "-inf", "nan"                                                *)
(***************************************************************************)
EXTENDS Integers, Sequences, FiniteSets, TLC

(***************************************************************************)
(* Bounds of the model.                                                    *)
(***************************************************************************)
\* Lines of an input file.
MaxLines == 3
\* Iterations of the application loop plus scroll events delivered.
MaxEvents == 4
\* Calls of init/run/free made by a client in SpecApi.
MaxCalls == 4

(***************************************************************************)
(* Input files.  A line is a sequence of whitespace-separated tokens; the  *)
(* empty sequence is the blank line.                                       *)
(***************************************************************************)
LineSet ==
  { <<>>,
    <<"v", "0", "0", "0">>, <<"v", "1", "1", "1">>,
    <<"v", "-2", "0", "0">>, <<"v", "2", "0", "0">>,
    <<"v", "1", "bad", "2">>, <<"v", "1", "2">>,
    <<"l", "0", "1">>, <<"l", "0", "5">>,
    <<"l", "0", "bad">>, <<"l", "1">>,
    <<"x", "1", "2", "3">> }

\* Values an uninitialised float can hold when it is read.
Indeterminate == {0, 2}

\* Decimal numerals of the input files and the value each denotes.
IsNumeral(tok) == tok \in {"0", "1", "2", "3", "5", "-2"}

NumeralValue(tok) ==
  CASE tok = "0" -> 0
    [] tok = "1" -> 1
    [] tok = "2" -> 2
    [] tok = "3" -> 3
    [] tok = "5" -> 5
    [] tok = "-2" -> 0 - 2

(***************************************************************************)
(* operator>> of a stringstream on a number.  A stream is its remaining    *)
(* tokens and its failbit.  The result is the stream afterwards, the value *)
(* stored and whether a value was stored at all: a stream that has failed  *)
(* or is at its end stores nothing, a token that is no number stores 0.    *)
(***************************************************************************)
Extract(stream) ==
  IF stream.fail \/ stream.toks = <<>>
    THEN [stream |-> [toks |-> stream.toks, fail |-> TRUE],
          stored |-> FALSE, value |-> 0]
    ELSE IF IsNumeral(Head(stream.toks))
      THEN [stream |-> [toks |-> Tail(stream.toks), fail |-> FALSE],
            stored |-> TRUE, value |-> NumeralValue(Head(stream.toks))]
      ELSE [stream |-> [toks |-> stream.toks, fail |-> TRUE],
            stored |-> TRUE, value |-> 0]

\* The stream of a line after `stream >> command`.
AfterCommand(line) == [toks |-> Tail(line), fail |-> FALSE]

\* Whether the three (or two) extractions of a line all store a parsed number.
WellFormed(line, n) ==
  /\ Len(line) >= n + 1
  /\ \A i \in 2..(n + 1) : IsNumeral(line[i])

\* The vertex a "v" line pushes; g is what the uninitialised glm::vec3 held.
ParseVertex(line, g) ==
  LET ex == Extract(AfterCommand(line))
      ey == Extract(ex.stream)
      ez == Extract(ey.stream)
  IN  << IF ex.stored THEN ex.value ELSE g[1],
         IF ey.stored THEN ey.value ELSE g[2],
         IF ez.stored THEN ez.value ELSE g[3] >>

\* The edge an "l" line pushes; the pair is value-initialised to (0, 0).
ParseEdge(line) ==
  LET e1 == Extract(AfterCommand(line))
      e2 == Extract(e1.stream)
  IN  << IF e1.stored THEN e1.value ELSE 0,
         IF e2.stored THEN e2.value ELSE 0 >>

(***************************************************************************)
(* Framer: the AABB of the vertices and the model matrix (main).           *)
(***************************************************************************)
Min(a, b) == IF a < b THEN a ELSE b
Max(a, b) == IF a > b THEN a ELSE b
Abs(a) == IF a < 0 THEN 0 - a ELSE a

\* glm::min and glm::max of two vec3: componentwise.
VecMin(a, b) == << Min(a[1], b[1]), Min(a[2], b[2]), Min(a[3], b[3]) >>
VecMax(a, b) == << Max(a[1], b[1]), Max(a[2], b[2]), Max(a[3], b[3]) >>

\* The first index and the stride of the loop that scans the vertices.
AabbFirst == 2
AabbStride == 2

\* The loop `for (size_t i = 2; i < vertices.size(); i += 2)`; vs[i + 1] is
\* the code's vertices[i].
RECURSIVE AabbLoop(_, _, _)
AabbLoop(vs, i, box) ==
  IF i < Len(vs)
    THEN AabbLoop(vs, i + AabbStride,
                  [min |-> VecMin(box.min, vs[i + 1]),
                   max |-> VecMax(box.max, vs[i + 1])])
    ELSE box

\* aabb_min and aabb_max as main computes them; first is vertices[0].
ComputeAabb(vs, first) == AabbLoop(vs, AabbFirst, [min |-> first, max |-> first])

\* The eight corners in the order main stores them in aabb_vertices.
AabbCorners(box) ==
  << box.min,
     << box.min[1], box.min[2], box.max[3] >>,
     << box.max[1], box.min[2], box.min[3] >>,
     << box.max[1], box.min[2], box.max[3] >>,
     << box.min[1], box.max[2], box.min[3] >>,
     << box.min[1], box.max[2], box.max[3] >>,
     << box.max[1], box.max[2], box.min[3] >>,
     box.max >>

RECURSIVE Gcd(_, _)
Gcd(a, b) == IF b = 0 THEN a ELSE Gcd(b, a % b)

\* The finite value n/d, reduced, and the values a float division by zero
\* and its products give.
Frac(n, d) ==
  LET g == Gcd(Abs(n), Abs(d))
      s == IF d < 0 THEN 0 - 1 ELSE 1
  IN  [kind |-> "fin", n |-> (s * n) \div g, d |-> (s * d) \div g]
PosInf == [kind |-> "inf", n |-> 0, d |-> 1]
NegInf == [kind |-> "-inf", n |-> 0, d |-> 1]
NaN == [kind |-> "nan", n |-> 0, d |-> 1]
IsFinite(x) == x.kind = "fin"

\* 1.0f / (0.5f * extent) for an extent >= 0: the division by +0 is +inf.
ScaleOf(extent) == IF extent = 0 THEN PosInf ELSE Frac(2, extent)

\* The float product of a scale and the finite value n/d.
ExtMul(s, n, d) ==
  CASE s.kind = "fin" -> Frac(s.n * n, s.d * d)
    [] s.kind = "inf" -> IF n = 0 THEN NaN ELSE IF n > 0 THEN PosInf ELSE NegInf

\* model = translate(scale(mat4(1), 1 / (0.5 (max - min))), -0.5 (max + min)):
\* the diagonal and the translation column of the matrix.
ModelMatrix(box) ==
  LET scale == [i \in 1..3 |-> ScaleOf(box.max[i] - box.min[i])]
  IN  [scale |-> scale,
       translate |-> [i \in 1..3 |->
                        ExtMul(scale[i], 0 - (box.max[i] + box.min[i]), 2)]]

\* glm::mat4 model{1.0f}
IdentityModel ==
  [scale |-> [i \in 1..3 |-> Frac(1, 1)], translate |-> [i \in 1..3 |-> Frac(0, 1)]]

(***************************************************************************)
(* binary32 arithmetic of the scroll callback.  A float is its bit pattern:*)
(* for a positive normal float, exponent * 2^23 + fraction.                *)
(***************************************************************************)
TwoTo12 == 2^12
TwoTo22 == 2^22
TwoTo23 == 2^23
TwoTo24 == 2^24
ExponentBias == 2^7 - 1
FloatInf == 255 * TwoTo23

\* The product of two positive normal floats, rounded to nearest, ties to
\* even.  The 48-bit product of the significands is computed in 12-bit
\* limbs as H * 2^24 + L.  A result below the normal range is flushed to 0.
FloatMul(a, b) ==
  LET ma == (a % TwoTo23) + TwoTo23
      mb == (b % TwoTo23) + TwoTo23
      a1 == ma \div TwoTo12
      a0 == ma % TwoTo12
      b1 == mb \div TwoTo12
      b0 == mb % TwoTo12
      mid == (a1 * b0) + (a0 * b1)
      low == ((mid % TwoTo12) * TwoTo12) + (a0 * b0)
      H == (a1 * b1) + (mid \div TwoTo12) + (low \div TwoTo24)
      L == low % TwoTo24
      big == H >= TwoTo23
      sig == IF big THEN H ELSE (2 * H) + (L \div TwoTo23)
      rem == IF big THEN L ELSE L % TwoTo23
      half == IF big THEN TwoTo23 ELSE TwoTo22
      up == rem > half \/ (rem = half /\ sig % 2 = 1)
      sig1 == IF up THEN sig + 1 ELSE sig
      e == (a \div TwoTo23) + (b \div TwoTo23) - ExponentBias + (IF big THEN 1 ELSE 0)
      e1 == IF sig1 = TwoTo24 THEN e + 1 ELSE e
      sig2 == IF sig1 = TwoTo24 THEN TwoTo23 ELSE sig1
  IN  IF e1 >= 255 THEN FloatInf
      ELSE IF e1 <= 0 THEN 0
      ELSE (e1 * TwoTo23) + (sig2 - TwoTo23)

\* exp(-0.1f * float(y)) for the wheel offsets y of the model: the binary32
\* results of expf.
ExpF(y) ==
  CASE y = 0 - 3 -> 1068288045
    [] y = 0 - 2 -> 1067210477
    [] y = 0 - 1 -> 1066235454
    [] y = 0 -> 1065353216
    [] y = 1 -> 1063756653
    [] y = 2 -> 1062312023
    [] y = 3 -> 1061004867

(***************************************************************************)
(* State.                                                                  *)
(***************************************************************************)
VARIABLES
  pc,             \* where the process is: in main, in the loop, ended
  argc,           \* argument count of the process
  file_ok,        \* whether the input file can be opened
  file,           \* the lines of the input file
  next_line,      \* index of the line the next getline reads
  vertices,       \* vector<glm::vec3> vertices
  edges,          \* vector<pair<uint32_t, uint32_t>> edges
  aabb_vertices,  \* array<glm::vec3, 8> aabb_vertices
  model,          \* glm::mat4 model
  exit_code,      \* exit status of the process once it has ended
  is_initialized, \* application::detail::is_initialized
  window,         \* application::detail::window: "null", "open", "destroyed"
  should_close,   \* the close flag of the window
  glfw,           \* whether the windowing library is initialised
  windows_open,   \* windows (with their contexts) the library holds
  gpu,            \* live OpenGL objects, each <<context, name>>
  created,        \* objects the last run of init created, in order
  released,       \* what free has released since the last run of init, in order
  buffers,        \* data uploaded to the frontier's vertex and element buffer
  inits,          \* how many times the body of init has run
  radius,         \* float radius (binary32 bit pattern)
  altitude,       \* float altitude, in 1e-7 rad
  azimuth,        \* float azimuth, in 1e-7 rad
  origin,         \* glm::vec3 origin: the pan terms added to (0, 0, 0)
  mouse_pos,      \* application::detail::mouse_pos
  old_mouse_pos,  \* application::detail::old_mouse_pos
  left,           \* state of the left mouse button at the last update
  right,          \* state of the right mouse button at the last update
  frames,         \* iterations of the application loop so far
  scroll_sum,     \* sum of the wheel offsets delivered so far
  scroll_count,   \* number of scroll events delivered so far
  calls,          \* the calls a client has made, each with is_initialized before it
  prev_altitude   \* altitude when the last update began

mainVars == <<argc, file_ok, file, next_line, vertices, edges, aabb_vertices,
              model, exit_code>>
appVars == <<is_initialized, window, should_close, glfw, windows_open, gpu,
             created, released, buffers, inits>>
camVars == <<radius, altitude, azimuth, origin, mouse_pos, old_mouse_pos,
             left, right, prev_altitude>>
scrollVars == <<scroll_sum, scroll_count>>
apiVars == <<calls>>
vars == <<pc, mainVars, appVars, camVars, frames, scrollVars, apiVars>>

(***************************************************************************)
(* Defaults of the globals (main.cpp, file scope).                         *)
(***************************************************************************)
\* float radius = 5.0f
InitialRadius == 1084227584
\* constexpr float bound = M_PI_2 - 1e-5f, in 1e-7 rad
Bound == 15707863
\* M_PI_2 in 1e-7 rad, rounded down
PiHalf == 15707963
\* mouse_move * 0.01: 1e-7 rad per pixel
OrbitGain == 100000

Range(seq) == {seq[i] : i \in 1..Len(seq)}

Reverse(seq) == [i \in 1..Len(seq) |-> seq[Len(seq) + 1 - i]]

\* vector<glm::vec3> vertices{}; vector<...> edges{}; glm::mat4 model{1.0f}
FrontierDefaults ==
  /\ vertices = <<>>
  /\ edges = <<>>
  /\ aabb_vertices = [i \in 1..8 |-> <<0, 0, 0>>]
  /\ model = IdentityModel

\* GLFWwindow* window = nullptr; bool is_initialized = false
AppDefaults ==
  /\ is_initialized = FALSE
  /\ window = "null"
  /\ should_close = FALSE
  /\ glfw = FALSE
  /\ windows_open = 0
  /\ gpu = {}
  /\ created = <<>>
  /\ released = <<>>
  /\ buffers = [vertex |-> <<>>, element |-> <<>>]
  /\ inits = 0

\* float radius = 5.0f; float altitude = 0.0f; float azimuth = 0.0f;
\* glm::vec3 origin{0, 0, 0}; glm::vec2 old_mouse_pos{}; glm::vec2 mouse_pos{}
CameraDefaults ==
  /\ radius = InitialRadius
  /\ altitude = 0
  /\ azimuth = 0
  /\ origin = <<>>
  /\ mouse_pos = <<0, 0>>
  /\ old_mouse_pos = <<0, 0>>
  /\ left = FALSE
  /\ right = FALSE
  /\ prev_altitude = 0
  /\ frames = 0
  /\ scroll_sum = 0
  /\ scroll_count = 0
  /\ calls = <<>>

(***************************************************************************)
(* application::init, application::free.                                   *)
(***************************************************************************)
\* How a run of init ends: it returns, or one of its calls fails and the
\* error callback or init_shader throws.
InitOutcomes ==
  {"ok", "glfw_error", "window_error", "vertex_shader_error",
   "fragment_shader_error", "link_error"}

\* The OpenGL objects init_shader and init_vertex_data create, in order.
CreationOrder ==
  <<"vertex_shader", "fragment_shader", "program",
    "vertex_array", "vertex_buffer", "element_buffer",
    "aabb_vertex_array", "aabb_vertex_buffer", "aabb_element_buffer">>

\* How many of them exist when init ends with the outcome.
CreatedCount(outcome) ==
  CASE outcome = "vertex_shader_error" -> 1
    [] outcome = "fragment_shader_error" -> 2
    [] outcome = "link_error" -> 3
    [] outcome = "ok" -> Len(CreationOrder)
    [] OTHER -> 0

\* glDeleteShader(vertex_shader); glDeleteShader(fragment_shader), reached
\* only when the program has linked.
ShadersDeleted(outcome) ==
  IF outcome = "ok" THEN {"vertex_shader", "fragment_shader"} ELSE {}

\* The body of init after its guard: init_window, init_shader,
\* init_vertex_data, resize, is_initialized = true.
InitBody(outcome) ==
  LET ctx == inits + 1
      made == SubSeq(CreationOrder, 1, CreatedCount(outcome))
      haveWindow == outcome \notin {"glfw_error", "window_error"}
  IN  /\ outcome = "glfw_error" => ~glfw
      /\ inits' = ctx
      /\ glfw' = (glfw \/ outcome # "glfw_error")
      /\ window' = IF haveWindow THEN "open" ELSE window
      /\ should_close' = IF haveWindow THEN FALSE ELSE should_close
      /\ windows_open' = IF haveWindow THEN windows_open + 1 ELSE windows_open
      /\ created' = made
      /\ gpu' = gpu \cup {<<ctx, n>> : n \in Range(made) \ ShadersDeleted(outcome)}
      /\ buffers' = IF outcome = "ok"
                      THEN [vertex |-> vertices, element |-> edges]
                      ELSE buffers
      /\ is_initialized' = (outcome = "ok")
      /\ released' = <<>>

\* init without its guard on is_initialized.
InitUnguarded(outcome) == InitBody(outcome)

\* void init()
init(outcome) ==
  IF is_initialized
    THEN outcome = "ok" /\ UNCHANGED appVars
    ELSE InitBody(outcome)

\* The glDelete* calls of free, in order.
FreeDeletes == <<"element_buffer", "vertex_buffer", "vertex_array", "program">>

\* The body of free after its guard.  glfwDestroyWindow destroys the window
\* with its context and the objects left in it; glfwTerminate destroys every
\* window the library still holds.
FreeBody ==
  LET afterDeletes == gpu \ {<<inits, n>> : n \in Range(FreeDeletes)}
      afterDestroy == IF window # "null"
                        THEN {o \in afterDeletes : o[1] # inits}
                        ELSE afterDeletes
      afterTerminate == {o \in afterDestroy : FALSE}
  IN  /\ released' = FreeDeletes \o (IF window # "null" THEN <<"window">> ELSE <<>>)
                       \o <<"terminate">>
      /\ gpu' = afterTerminate
      /\ windows_open' = 0
      /\ window' = IF window # "null" THEN "destroyed" ELSE window
      /\ glfw' = FALSE
      /\ is_initialized' = FALSE
      /\ UNCHANGED <<should_close, created, buffers, inits>>

\* void free()
free ==
  IF ~is_initialized
    THEN UNCHANGED appVars
    ELSE FreeBody

(***************************************************************************)
(* application::detail::update and the callbacks init_window installs.     *)
(***************************************************************************)
CursorPositions == {<<0, 0>>, <<30, 200>>, <<0 - 30, 0 - 200>>}
ScrollOffsets == {0 - 3, 0 - 1, 1, 3}

\* std::clamp(v, lo, hi)
Clamp(v, lo, hi) == IF v < lo THEN lo ELSE IF hi < v THEN hi ELSE v

\* Orbit without the clamp at the poles.
OrbitUnclamped(alt, dy) == alt + dy * OrbitGain

\* The altitude update of a left drag by dy pixels.
Orbit(alt, dy) == Clamp(alt + dy * OrbitGain, 0 - Bound, Bound)

\* origin += -scale * dx * camera_right + scale * dy * camera_up, where scale,
\* camera_right and camera_up are functions of the camera before the orbit
\* update of the same frame.  The sum is kept as the sequence of its terms;
\* a term with dx = dy = 0 adds the zero vector.
Pan(org, dx, dy) ==
  IF dx = 0 /\ dy = 0
    THEN org
    ELSE Append(org, [dx |-> dx, dy |-> dy, altitude |-> altitude,
                      azimuth |-> azimuth, radius |-> radius])

\* void update(): pos is what glfwGetCursorPos returns, l and r whether
\* glfwGetMouseButton returns GLFW_PRESS for the left and the right button.
update(pos, l, r) ==
  LET dx == pos[1] - mouse_pos[1]
      dy == pos[2] - mouse_pos[2]
  IN  /\ old_mouse_pos' = mouse_pos
      /\ mouse_pos' = pos
      /\ altitude' = IF l THEN Orbit(altitude, dy) ELSE altitude
      /\ azimuth' = IF l THEN azimuth - dx * OrbitGain ELSE azimuth
      /\ origin' = IF r THEN Pan(origin, dx, dy) ELSE origin
      /\ left' = l
      /\ right' = r
      /\ prev_altitude' = altitude
      /\ UNCHANGED radius

\* The scroll callback with the sign of the exponent dropped.
ScrollCallbackInverted(y) ==
  /\ radius' = FloatMul(radius, ExpF(0 - y))
  /\ UNCHANGED <<altitude, azimuth, origin, mouse_pos, old_mouse_pos, left,
                 right, prev_altitude>>

\* The scroll callback: radius *= exp(-0.1f * float(y)).
ScrollCallback(y) ==
  /\ radius' = FloatMul(radius, ExpF(y))
  /\ UNCHANGED <<altitude, azimuth, origin, mouse_pos, old_mouse_pos, left,
                 right, prev_altitude>>

InLoop == pc \in {"loop", "api_loop"}

\* One iteration of the loop of run: glfwPollEvents, update, render,
\* glfwSwapBuffers.  render draws from the buffers init uploaded and changes
\* none of the state above; the view and projection matrices are functions
\* of that state which no handler reads back.
Frame(pos, l, r) ==
  /\ InLoop
  /\ ~should_close
  /\ frames + scroll_count < MaxEvents
  /\ update(pos, l, r)
  /\ frames' = frames + 1
  /\ UNCHANGED <<pc, mainVars, appVars, scrollVars, apiVars>>

\* A scroll event delivered by glfwPollEvents.
Scroll(y) ==
  /\ InLoop
  /\ frames + scroll_count < MaxEvents
  /\ ScrollCallback(y)
  /\ scroll_sum' = scroll_sum + y
  /\ scroll_count' = scroll_count + 1
  /\ UNCHANGED <<pc, mainVars, appVars, frames, apiVars>>

\* The key callback on Escape, or the window manager's close request.
CloseRequest ==
  /\ InLoop
  /\ ~should_close
  /\ should_close' = TRUE
  /\ UNCHANGED <<pc, mainVars, is_initialized, window, glfw, windows_open, gpu,
                 created, released, buffers, inits, camVars, frames,
                 scrollVars, apiVars>>

(***************************************************************************)
(* main.                                                                   *)
(***************************************************************************)
appUnchanged == UNCHANGED <<appVars, camVars, frames, scrollVars, apiVars>>

\* return -1 from main
ReturnError ==
  /\ pc' = "returned"
  /\ exit_code' = 0 - 1

\* if (argc != 2) return -1
MainArgs ==
  /\ pc = "args"
  /\ IF argc # 2
       THEN ReturnError
       ELSE pc' = "open" /\ UNCHANGED exit_code
  /\ UNCHANGED <<argc, file_ok, file, next_line, vertices, edges,
                 aabb_vertices, model>>
  /\ appUnchanged

\* if (!file.is_open()) return -1
MainOpen ==
  /\ pc = "open"
  /\ IF ~file_ok
       THEN ReturnError
       ELSE pc' = "parse" /\ UNCHANGED exit_code
  /\ UNCHANGED <<argc, file_ok, file, next_line, vertices, edges,
                 aabb_vertices, model>>
  /\ appUnchanged

\* The parse loop with an unknown command skipped like a blank line.
ParseLineSkippingUnknown(g) ==
  /\ pc = "parse"
  /\ next_line <= Len(file)
  /\ LET line == file[next_line]
     IN  /\ next_line' = next_line + 1
         /\ IF line # <<>> /\ Head(line) = "v"
              THEN /\ vertices' = Append(vertices, ParseVertex(line, g))
                   /\ UNCHANGED <<pc, exit_code, edges>>
              ELSE IF line # <<>> /\ Head(line) = "l"
                THEN /\ edges' = Append(edges, ParseEdge(line))
                     /\ UNCHANGED <<pc, exit_code, vertices>>
                ELSE UNCHANGED <<pc, exit_code, vertices, edges>>
  /\ UNCHANGED <<argc, file_ok, file, aabb_vertices, model>>
  /\ appUnchanged

\* One iteration of `while (getline(file, line))`; g is what the
\* uninitialised vertex of the iteration holds.
ParseLine(g) ==
  /\ pc = "parse"
  /\ next_line <= Len(file)
  /\ LET line == file[next_line]
     IN  /\ next_line' = next_line + 1
         /\ IF line = <<>>
              THEN UNCHANGED <<pc, exit_code, vertices, edges>>
              ELSE IF Head(line) = "v"
                THEN /\ vertices' = Append(vertices, ParseVertex(line, g))
                     /\ UNCHANGED <<pc, exit_code, edges>>
                ELSE IF Head(line) = "l"
                  THEN /\ edges' = Append(edges, ParseEdge(line))
                       /\ UNCHANGED <<pc, exit_code, vertices>>
                  ELSE /\ ReturnError
                       /\ UNCHANGED <<vertices, edges>>
  /\ UNCHANGED <<argc, file_ok, file, aabb_vertices, model>>
  /\ appUnchanged

\* The AABB and the model matrix, computed when getline has reached the end
\* of the file.  On an empty vertex list vertices[0] is read out of bounds:
\* the read gives some value g, or the process is killed (FramerCrash).
Framer(g) ==
  /\ pc = "parse"
  /\ next_line > Len(file)
  /\ LET first == IF vertices # <<>> THEN vertices[1] ELSE g
         box == ComputeAabb(vertices, first)
     IN  /\ aabb_vertices' = AabbCorners(box)
         /\ model' = ModelMatrix(box)
  /\ pc' = "run"
  /\ UNCHANGED <<argc, file_ok, file, next_line, vertices, edges, exit_code>>
  /\ appUnchanged

FramerCrash ==
  /\ pc = "parse"
  /\ next_line > Len(file)
  /\ vertices = <<>>
  /\ pc' = "aborted"
  /\ exit_code' = 139
  /\ UNCHANGED <<argc, file_ok, file, next_line, vertices, edges,
                 aabb_vertices, model>>
  /\ appUnchanged

\* An exception nothing catches: std::terminate aborts the process, and no
\* destructor of a static object runs.
Terminate ==
  /\ pc' = "aborted"
  /\ exit_code' = 134

\* application::run() called by main: `if (!is_initialized) init()`.
MainRun(outcome) ==
  /\ pc = "run"
  /\ init(outcome)
  /\ IF outcome = "ok"
       THEN pc' = "loop" /\ UNCHANGED exit_code
       ELSE Terminate
  /\ UNCHANGED <<argc, file_ok, file, next_line, vertices, edges,
                 aabb_vertices, model>>
  /\ UNCHANGED <<camVars, frames, scrollVars, apiVars>>

\* The windowing library reports an error while the loop runs, and the error
\* callback throws.
MainRunThrows ==
  /\ pc = "loop"
  /\ ~should_close
  /\ Terminate
  /\ UNCHANGED <<argc, file_ok, file, next_line, vertices, edges,
                 aabb_vertices, model>>
  /\ appUnchanged

\* glfwWindowShouldClose(window) ends the loop, run returns, main returns 0.
MainRunReturns ==
  /\ pc = "loop"
  /\ should_close
  /\ pc' = "returned"
  /\ exit_code' = 0
  /\ UNCHANGED <<argc, file_ok, file, next_line, vertices, edges,
                 aabb_vertices, model>>
  /\ appUnchanged

\* ~raii_destructor_t() { free(); } when main has returned.
StaticDestructor ==
  /\ pc = "returned"
  /\ free
  /\ pc' = "exited"
  /\ UNCHANGED <<mainVars, camVars, frames, scrollVars, apiVars>>

Ended == pc \in {"exited", "aborted"}

\* The input files of the model.
Files == UNION {[1..n -> LineSet] : n \in 0..MaxLines}

InitMain ==
  /\ FrontierDefaults
  /\ AppDefaults
  /\ CameraDefaults
  /\ pc = "args"
  /\ exit_code = 0
  /\ next_line = 1
  /\ \/ argc \in {1, 3} /\ file_ok = FALSE /\ file = <<>>
     \/ argc = 2 /\ file_ok = FALSE /\ file = <<>>
     \/ argc = 2 /\ file_ok = TRUE /\ file \in Files

\* The user does not touch the mouse while main is explored.
IdleCursor == {<<0, 0>>}

NextMain ==
  \/ MainArgs
  \/ MainOpen
  \/ \E g \in Indeterminate \X Indeterminate \X Indeterminate : ParseLine(g)
  \/ \E g \in Indeterminate \X Indeterminate \X Indeterminate : Framer(g)
  \/ FramerCrash
  \/ \E outcome \in InitOutcomes : MainRun(outcome)
  \/ \E pos \in IdleCursor : Frame(pos, FALSE, FALSE)
  \/ CloseRequest
  \/ MainRunThrows
  \/ MainRunReturns
  \/ StaticDestructor

SpecMain == InitMain /\ [][NextMain]_vars

(***************************************************************************)
(* The state main has reached when it calls application::run on the file   *)
(* of the single edge from (-2, 0, 0) to (2, 0, 0).                        *)
(***************************************************************************)
SingleEdgeFile ==
  << <<"v", "-2", "0", "0">>, <<"v", "2", "0", "0">>, <<"l", "0", "1">> >>

SingleEdgeVertices == << <<0 - 2, 0, 0>>, <<2, 0, 0>> >>

SingleEdgeBox == ComputeAabb(SingleEdgeVertices, SingleEdgeVertices[1])

SingleEdgeParsed ==
  /\ argc = 2
  /\ file_ok = TRUE
  /\ file = SingleEdgeFile
  /\ next_line = Len(SingleEdgeFile) + 1
  /\ vertices = SingleEdgeVertices
  /\ edges = << <<0, 1>> >>
  /\ aabb_vertices = AabbCorners(SingleEdgeBox)
  /\ model = ModelMatrix(SingleEdgeBox)
  /\ exit_code = 0

(***************************************************************************)
(* SpecCamera: the loop of run after init has succeeded, with the user at  *)
(* the mouse.                                                              *)
(***************************************************************************)
InitCamera ==
  /\ SingleEdgeParsed
  /\ CameraDefaults
  /\ pc = "loop"
  /\ is_initialized = TRUE
  /\ window = "open"
  /\ should_close = FALSE
  /\ glfw = TRUE
  /\ windows_open = 1
  /\ inits = 1
  /\ created = CreationOrder
  /\ gpu = {<<1, n>> : n \in Range(CreationOrder) \ ShadersDeleted("ok")}
  /\ released = <<>>
  /\ buffers = [vertex |-> SingleEdgeVertices, element |-> << <<0, 1>> >>]

NextCamera ==
  \/ \E pos \in CursorPositions, l \in BOOLEAN, r \in BOOLEAN : Frame(pos, l, r)
  \/ \E y \in ScrollOffsets : Scroll(y)
  \/ CloseRequest

SpecCamera == InitCamera /\ [][NextCamera]_vars

(***************************************************************************)
(* SpecApi: a client that calls init, run and free in any order and        *)
(* catches what they throw.                                                *)
(***************************************************************************)
Called(name) ==
  /\ Len(calls) < MaxCalls
  /\ calls' = Append(calls, [name |-> name, initialized |-> is_initialized])

CallInit(outcome) ==
  /\ pc = "api"
  /\ Called("init")
  /\ init(outcome)
  /\ UNCHANGED <<pc, mainVars, camVars, frames, scrollVars>>

CallFree ==
  /\ pc = "api"
  /\ Called("free")
  /\ free
  /\ UNCHANGED <<pc, mainVars, camVars, frames, scrollVars>>

\* void run(): `if (!is_initialized) init()`, then the loop; an exception of
\* init leaves run before the loop.
CallRun(outcome) ==
  /\ pc = "api"
  /\ Called("run")
  /\ init(outcome)
  /\ pc' = IF outcome = "ok" THEN "api_loop" ELSE "api"
  /\ UNCHANGED <<mainVars, camVars, frames, scrollVars>>

\* glfwWindowShouldClose(window) ends the loop and run returns.
ApiRunReturns ==
  /\ pc = "api_loop"
  /\ should_close
  /\ pc' = "api"
  /\ UNCHANGED <<mainVars, appVars, camVars, frames, scrollVars, apiVars>>

\* The error callback throws while the loop runs; the client catches.
ApiRunThrows ==
  /\ pc = "api_loop"
  /\ ~should_close
  /\ pc' = "api"
  /\ UNCHANGED <<mainVars, appVars, camVars, frames, scrollVars, apiVars>>

InitApi ==
  /\ SingleEdgeParsed
  /\ AppDefaults
  /\ CameraDefaults
  /\ pc = "api"

NextApi ==
  \/ \E outcome \in InitOutcomes : CallInit(outcome)
  \/ CallFree
  \/ \E outcome \in InitOutcomes : CallRun(outcome)
  \/ \E pos \in IdleCursor : Frame(pos, FALSE, FALSE)
  \/ CloseRequest
  \/ ApiRunReturns
  \/ ApiRunThrows

SpecApi == InitApi /\ [][NextApi]_vars

(***************************************************************************)
(* Properties.                                                             *)
(***************************************************************************)

\* A "v" or "l" line with a malformed or missing numeric field.
Malformed(line) ==
  /\ line # <<>>
  /\ \/ Head(line) = "v" /\ ~WellFormed(line, 3)
     \/ Head(line) = "l" /\ ~WellFormed(line, 2)

\* The input has no malformed line and has given at least one vertex: the
\* runs in which neither an uninitialised nor an out-of-bounds value is read.
CleanInput ==
  /\ vertices # <<>>
  /\ \A i \in 1..Len(file) : ~Malformed(file[i])

\* C1: on every exit path once init has begun (normal quit, an exception
\* during run, a failure of the graphics initialisation) teardown runs:
\* when the process has ended, the window, the windowing library and the
\* OpenGL objects init created have been released.  Stated for the runs on
\* clean input.  (SpecMain)
C1_TeardownOnEveryExit ==
  (Ended /\ inits > 0 /\ CleanInput) =>
    (windows_open = 0 /\ ~glfw /\ gpu = {})

\* C2: altitude is always strictly inside (-pi/2, pi/2) and within
\* [-(pi/2 - 1e-5), pi/2 - 1e-5], and a left drag towards the pole at which
\* altitude already sits leaves altitude pinned there.  (SpecCamera)
AltitudeInRange ==
  /\ 0 - PiHalf <= altitude /\ altitude <= PiHalf
  /\ 0 - Bound <= altitude /\ altitude <= Bound

PinnedAtPole ==
  LET drag == frames' = frames + 1 /\ left'
      dy == mouse_pos'[2] - old_mouse_pos'[2]
  IN  /\ (drag /\ altitude = Bound /\ dy >= 0) => altitude' = Bound
      /\ (drag /\ altitude = 0 - Bound /\ dy <= 0) => altitude' = 0 - Bound

C2_AltitudeClamped == []AltitudeInRange /\ [][PinnedAtPole]_vars

\* A left drag of dy > 0 made while altitude was at the upper bound.
C2_Witness ==
  /\ left
  /\ prev_altitude = Bound
  /\ altitude = Bound
  /\ mouse_pos[2] > old_mouse_pos[2]

\* C3: free on an initialised application releases every OpenGL object init
\* left alive (the program and, for the frontier and the AABB, the vertex
\* array, the vertex buffer and the element buffer) in the reverse of their
\* creation order, only then destroys the window and terminates the
\* library, and nothing is left allocated.  (SpecApi)
IsShader(name) == name \in {"vertex_shader", "fragment_shader"}

LeftAlive(made) == SelectSeq(made, LAMBDA n : ~IsShader(n))

C3_FreeReleasesAllInReverse ==
  released # <<>> =>
    /\ released = Reverse(LeftAlive(created)) \o <<"window", "terminate">>
    /\ gpu = {}

\* C4: for every file the parser accepts, every edge handed to the renderer
\* has both indices below the number of parsed vertices.  Stated for the
\* runs on clean input.  (SpecMain)
C4_EdgeIndicesInRange ==
  (is_initialized /\ CleanInput) =>
    \A i \in 1..Len(buffers.element) :
      /\ buffers.element[i][1] < Len(buffers.vertex)
      /\ buffers.element[i][2] < Len(buffers.vertex)

\* C5: for a non-empty vertex list the AABB is the componentwise minimum and
\* maximum over all vertices, so it contains every vertex.  Stated for the
\* runs on clean input.  (SpecMain)
C5_AabbContainsEveryVertex ==
  (pc = "run" /\ CleanInput) =>
    \A i \in 1..Len(vertices), k \in 1..3 :
      /\ aabb_vertices[1][k] <= vertices[i][k]
      /\ vertices[i][k] <= aabb_vertices[8][k]

\* C6: when the AABB has zero extent on an axis the Framer substitutes a
\* small positive extent, so the model matrix is finite and non-singular.
\* Stated for the runs on clean input.  (SpecMain)
C6_ModelFiniteNonSingular ==
  (pc = "run" /\ CleanInput) =>
    \A k \in 1..3 :
      /\ IsFinite(model.scale[k]) /\ model.scale[k].n # 0
      /\ IsFinite(model.translate[k])

\* C7: a "v" or "l" line with a malformed or missing numeric field is a
\* parse error: once such a line has been read the program has left main
\* with a nonzero status, and no vertex or edge was built from it: the
\* frontier holds exactly the well-formed lines read.  (SpecMain)
LinesRead == 1..(next_line - 1)

C7_MalformedLineRejected ==
  (\E i \in LinesRead : Malformed(file[i])) =>
    /\ pc \in {"returned", "exited"}
    /\ exit_code # 0
    /\ Len(vertices) =
         Cardinality({i \in LinesRead : file[i] # <<>> /\ Head(file[i]) = "v"
                                         /\ ~Malformed(file[i])})
    /\ Len(edges) =
         Cardinality({i \in LinesRead : file[i] # <<>> /\ Head(file[i]) = "l"
                                         /\ ~Malformed(file[i])})

\* C8: every pre-window error (an argument count other than one, a file
\* that cannot be opened, a non-blank line whose command is neither "v" nor
\* "l") makes the program exit with a nonzero status before init is ever
\* entered, so no window is opened, whatever the lines before the offending
\* line are.  (SpecMain)
UnknownCommand(line) == line # <<>> /\ Head(line) \notin {"v", "l"}

PreWindowError ==
  \/ argc # 2
  \/ ~file_ok
  \/ \E i \in 1..Len(file) : UnknownCommand(file[i])

C8_PreWindowErrorExits ==
  PreWindowError =>
    /\ inits = 0 /\ ~glfw /\ window = "null" /\ windows_open = 0
    /\ pc \in {"args", "open", "parse", "returned", "exited"}
    /\ pc \in {"returned", "exited"} => exit_code # 0
    /\ pc # "exited" => ENABLED NextMain

\* The program has exited on an unknown command that follows a vertex line.
C8_Witness ==
  /\ pc = "exited"
  /\ exit_code # 0
  /\ vertices # <<>>
  /\ inits = 0
  /\ \E i \in 2..Len(file) : UnknownCommand(file[i])

\* C9: for any sequence of init, run and free calls: init when initialised
\* does nothing, so a window and the OpenGL objects are created at most once
\* per initialised period; run when not initialised runs init before its
\* first loop iteration; free when not initialised does nothing.  (SpecApi)
CallMade(name) ==
  /\ Len(calls') = Len(calls) + 1
  /\ calls'[Len(calls')].name = name

ApiIdempotence ==
  /\ (CallMade("init") /\ is_initialized) => UNCHANGED appVars
  /\ (CallMade("free") /\ ~is_initialized) => UNCHANGED appVars
  /\ (CallMade("run") /\ ~is_initialized) =>
       /\ inits' = inits + 1
       /\ pc' = "api_loop" => is_initialized'
  /\ inits' # inits => ~is_initialized
  /\ frames' # frames => is_initialized

C9_InitRunFreeGuards ==
  /\ [](pc = "api_loop" => is_initialized)
  /\ [](is_initialized => (window = "open" /\ windows_open >= 1))
  /\ [][ApiIdempotence]_vars

\* free before any init, free again, run (which initialises and loops until
\* the window closes), then init on the initialised application.
C9_Witness ==
  /\ Len(calls) = 4
  /\ calls[1] = [name |-> "free", initialized |-> FALSE]
  /\ calls[2] = [name |-> "free", initialized |-> FALSE]
  /\ calls[3] = [name |-> "run", initialized |-> FALSE]
  /\ calls[4] = [name |-> "init", initialized |-> TRUE]
  /\ frames >= 1
  /\ should_close
  /\ inits = 1

\* The float nearest to 5 * exp(-0.1 * s): r0 * exp(-0.1 * (d1 + ... + dn))
\* for the wheel offsets with sum s.
Ideal(s) ==
  CASE s = 0 - 18 -> 1106377828 [] s = 0 - 17 -> 1104868665
    [] s = 0 - 16 -> 1103503117 [] s = 0 - 15 -> 1102267519
    [] s = 0 - 14 -> 1101149503 [] s = 0 - 13 -> 1100137881
    [] s = 0 - 12 -> 1099222527 [] s = 0 - 11 -> 1097880914
    [] s = 0 - 10 -> 1096382057 [] s = 0 - 9 -> 1095025836
    [] s = 0 - 8 -> 1093798676 [] s = 0 - 7 -> 1092688296
    [] s = 0 - 6 -> 1091683582 [] s = 0 - 5 -> 1090774480
    [] s = 0 - 4 -> 1089384740 [] s = 0 - 3 -> 1087896119
    [] s = 0 - 2 -> 1086549160 [] s = 0 - 1 -> 1085330381
    [] s = 0 -> 1084227584 [] s = 1 -> 1083229732
    [] s = 2 -> 1082326838 [] s = 3 -> 1080889300
    [] s = 4 -> 1079410846 [] s = 5 -> 1078073086
    [] s = 6 -> 1076862630 [] s = 7 -> 1075767365
    [] s = 8 -> 1074776327 [] s = 9 -> 1073879600
    [] s = 10 -> 1072394590 [] s = 11 -> 1070926233
    [] s = 12 -> 1069597609 [] s = 13 -> 1068395420
    [] s = 14 -> 1067307634 [] s = 15 -> 1066323365
    [] s = 16 -> 1065432762 [] s = 17 -> 1063900605
    [] s = 18 -> 1062442276

ScrollLeavesCamera ==
  scroll_count' = scroll_count + 1 => UNCHANGED <<altitude, azimuth, origin>>

====
